---- MODULE Spec2Model ----
(***************************************************************************)
(* Model of PaymentService (src/src/services/paymentService.ts): the       *)
(* payment_methods / transactions tables, the user's profile, and every    *)
(* public operation of the service as a sequence of steps, one step per    *)
(* awaited collaborator call.  A collaborator call (store, settings,       *)
(* profile, HTTP) answers "ok", answers with an error, or throws.          *)
(*                                                                         *)
(* Numbers are exact rationals [n, d] (d > 0); d = 0 stands for null.      *)
(* IEEE-754 rounding error of the JavaScript products is not modelled.     *)
(*                                                                         *)
(* The Retry Payment Modal (src/unnamed/part_000) is the React component   *)
(* that calls the service: its state variables, its two effects, and its   *)
(* handlers, one step per awaited call.  An effect's asynchronous function *)
(* keeps the state values of the render that started it.                   *)
(***************************************************************************)
EXTENDS Integers, Sequences, FiniteSets, TLC

VARIABLES
    profile,        \* the user's profile row: [points, currency]
    transactions,   \* the transactions table: sequence of rows, row i has id i
    rowGuard,       \* store policy: TRUE when client updates match only pending rows
    calls,          \* per call slot: operation, position, arguments, locals, result
    started,        \* number of operations invoked so far
    modal           \* the Retry Payment Modal: props, React state, calls in flight

vars == <<profile, transactions, rowGuard, calls, started, modal>>

-----------------------------------------------------------------------------
(* Bounds *)

MaxTx == 1

MaxCalls == 2

\* how many times the modal is opened
MaxOpens == 2

-----------------------------------------------------------------------------
(* Exact arithmetic *)

Abs(i) == IF i < 0 THEN -i ELSE i

RECURSIVE GCD(_, _)
GCD(a, b) == IF b = 0 THEN a ELSE GCD(b, a % b)

R(n, d) ==
    LET g == GCD(Abs(n), d)
    IN  IF n = 0 THEN [n |-> 0, d |-> 1] ELSE [n |-> n \div g, d |-> d \div g]

NoNum == [n |-> 0, d |-> 0]

IsNum(x) == x.d > 0

\* JavaScript truthiness of a number-or-null: null and 0 are falsy
Truthy(x) == x.d > 0 /\ x.n # 0

Mul(x, y) == R(x.n * y.n, x.d * y.d)

Div(x, y) == IF y.n > 0 THEN R(x.n * y.d, x.d * y.n) ELSE R(-(x.n * y.d), x.d * (-y.n))

\* truncation towards -infinity, as Math.floor
RoundDown(x) == x.n \div x.d

\* Math.round: the nearest integer, halves towards +infinity
Round(x) == (2 * x.n + x.d) \div (2 * x.d)

-----------------------------------------------------------------------------
(* Reference data and inputs *)

Currencies == {"USD", "EUR", "NGN"}

Terminal == {"completed", "failed", "refunded"}

Slots == {"a", "b"}

Amounts == {R(50, 1), R(1, 2)}

\* the user's balance when the model starts
InitialPoints == 100

\* values of settings.points_to_usd_conversion; 0 stands for an absent value
ConvValues == {0, 1}

ExchangeRates ==
    [p \in (Currencies \X Currencies) |->
        CASE p = <<"EUR", "USD">> -> R(11, 10)
          [] p = <<"USD", "EUR">> -> R(10, 11)
          [] p = <<"USD", "NGN">> -> R(1500, 1)
          [] p = <<"NGN", "USD">> -> R(1, 1500)
          [] p = <<"EUR", "NGN">> -> R(1650, 1)
          [] p = <<"NGN", "EUR">> -> R(1, 1650)
          [] OTHER -> R(1, 1)]

Outcomes == {"ok", "error", "throw"}

-----------------------------------------------------------------------------
(* Results and call records *)

Null == "null"

Ok(d) == [data |-> <<d>>, error |-> Null]

Err(msg) == [data |-> <<>>, error |-> msg]

NoResult == [data |-> <<>>, error |-> "pending"]

NoMeta ==
    [points_used |-> -1, conversion_rate |-> 0, exchange_rate |-> NoNum,
     original_amount |-> NoNum, original_currency |-> Null,
     reference |-> Null, error |-> Null]

IdleCall ==
    [op |-> "none", pc |-> "idle",
     amount |-> NoNum, currency |-> Null, toCurrency |-> Null,
     txId |-> 0, status |-> Null, gw |-> Null, enabled |-> {},
     setting |-> 0, conv |-> 0, rate |-> NoNum, converted |-> NoNum,
     computed |-> FALSE, pointsNeeded |-> 0, fetchedPoints |-> -1,
     userCurrency |-> Null, originalAmount |-> NoNum, tx |-> 0, errText |-> Null,
     balBefore |-> 0, txBefore |-> 0,
     pointCalls |-> 0, debits |-> 0, credits |-> 0, http |-> 0, lookups |-> 0,
     queried |-> FALSE, reread |-> FALSE, fault |-> FALSE, overlap |-> FALSE,
     rateAnswer |-> Null,
     result |-> NoResult]

Active(c) == calls[c].pc \notin {"idle", "done", "escaped"}

At(c, op, pc) == calls[c].op = op /\ calls[c].pc = pc

Return(call, res) == [call EXCEPT !.pc = "done", !.result = res]

\* an exception that no catch clause handles
CaughtMut(call, msg) == [call EXCEPT !.pc = "escaped", !.fault = TRUE]

\* an exception raised inside the operation's outer try block (every await of
\* every operation is inside it): the catch clause turns it into a result
Caught(call, msg) == [Return(call, Err(msg)) EXCEPT !.fault = TRUE]

-----------------------------------------------------------------------------
(* Store *)

Row(id) == transactions[id]

Exists(id) == id \in 1..Len(transactions)

\* whether an update(...).eq('id', id) issued by the client matches the row
StoreAllowsUpdate(row) == (~rowGuard) \/ row.status = "pending"

Matches(id) == Exists(id) /\ StoreAllowsUpdate(Row(id))

\* the modal before it is mounted: the useState initial values (lines 39-53)
UnmountedModal ==
    [mounted |-> FALSE, pollCurrency |-> "USD", budget |-> NoNum,
     isOpen |-> FALSE, opens |-> 0,
     loading |-> FALSE, paymentMethods |-> <<>>, selectedPaymentMethod |-> 0,
     supportedCurrencies |-> {"USD"}, loadingCurrencies |-> TRUE,
     pointsToUsdConversion |-> 100,
     exchangeRates |-> [p \in Currencies \X Currencies |-> NoNum],
     stripeInstance |-> FALSE, clientSecret |-> Null, transactionId |-> 0,
     stripeLoadError |-> Null,
     keyLoads |-> 0, methodFetches |-> [stripe \in BOOLEAN |-> 0],
     currencyFetches |-> 0, settingsFetches |-> 0, rateFetches |-> 0,
     user |-> FALSE,
     retry |-> "idle", retryType |-> Null, branch |-> Null, outcome |-> Null,
     redirected |-> FALSE, callbacks |-> <<>>, toast |-> Null,
     applied |-> <<>>]

Init ==
    /\ profile = [points |-> InitialPoints, currency |-> "EUR"]
    /\ transactions = <<>>
    /\ rowGuard \in BOOLEAN
    /\ calls = [c \in Slots |-> IdleCall]
    /\ started = 0
    /\ modal = UnmountedModal

\* a step of the service leaves the modal as it is
Set(c, call) == calls' = [calls EXCEPT ![c] = call] /\ modal' = modal

\* the table is followed up to MaxTx rows: an operation that may insert starts
\* while there is room, and an insert succeeds only while there is room (a
\* concurrent call may have taken it; the insert can still fail)
Room == Len(transactions) < MaxTx

\* an operation is invoked on a free slot
Invoke(c) ==
    /\ ~Active(c)
    /\ started < MaxCalls
    /\ started' = started + 1

Begin(op, pc) ==
    [IdleCall EXCEPT !.op = op, !.pc = pc,
                     !.balBefore = profile.points, !.txBefore = Len(transactions),
                     !.overlap = \E d \in Slots : Active(d)]

-----------------------------------------------------------------------------
(* processWalletPayment *)

\* settings?.points_to_usd_conversion || 100
PointsToUsdConversion(v) == IF v # 0 THEN v ELSE 100

\* amountInUSD: converted only when currency differs from USD and a rate came back
AmountInUSD(amount, currency, rate) ==
    IF currency # "USD" /\ Truthy(rate) THEN Mul(amount, rate) ELSE amount

PointsNeeded(amountInUSD, conv) == Round(Mul(amountInUSD, R(conv, 1)))

\* a balance check that only refuses an empty balance
InsufficientPointsMut(points, needed) == points <= 0

\* profile.points < pointsNeeded
InsufficientPoints(points, needed) == points < needed

\* a wallet row that records no points
WalletRowMut(id, c, call) ==
    [id |-> id, by |-> c, user_id |-> "u1",
     amount |-> call.converted, currency |-> "USD",
     original_amount |-> call.amount, original_currency |-> call.currency,
     payment_method |-> "wallet", status |-> "completed",
     gateway_transaction_id |-> Null, stripe_payment_intent_id |-> Null,
     notified |-> FALSE,
     metadata |-> [NoMeta EXCEPT
        !.conversion_rate = call.conv,
        !.exchange_rate = IF call.currency # "USD"
                          THEN Div(call.converted, call.amount) ELSE R(1, 1)]]

WalletRow(id, c, call) ==
    [id |-> id, by |-> c, user_id |-> "u1",
     amount |-> call.converted, currency |-> "USD",
     original_amount |-> call.amount, original_currency |-> call.currency,
     payment_method |-> "wallet", status |-> "completed",
     gateway_transaction_id |-> Null, stripe_payment_intent_id |-> Null,
     notified |-> FALSE,
     metadata |-> [NoMeta EXCEPT
        !.points_used = call.pointsNeeded,
        !.conversion_rate = call.conv,
        !.exchange_rate = IF call.currency # "USD"
                          THEN Div(call.converted, call.amount) ELSE R(1, 1)]]

StartWallet(c, amount, currency) ==
    /\ Invoke(c)
    /\ Room
    /\ Set(c, [Begin("processWalletPayment", "w_settings") EXCEPT
                  !.amount = amount, !.currency = currency])
    /\ UNCHANGED <<profile, transactions, rowGuard>>

WithPoints(call, usd) ==
    [call EXCEPT !.converted = usd, !.computed = TRUE,
                 !.pointsNeeded = PointsNeeded(usd, call.conv),
                 !.pc = "w_profile"]

\* SettingsService.getSettings('promoted_polls'); its error is not read
WalletSettings(c) ==
    /\ At(c, "processWalletPayment", "w_settings")
    /\ \E o \in Outcomes, v \in ConvValues :
        /\ (o # "ok") => v = 0
        /\ LET call == [calls[c] EXCEPT !.setting = v, !.conv = PointsToUsdConversion(v)]
           IN  Set(c, IF o = "throw" THEN Caught(calls[c], "settings threw")
                      ELSE IF call.currency # "USD" THEN [call EXCEPT !.pc = "w_rate"]
                      ELSE WithPoints(call, AmountInUSD(call.amount, call.currency, NoNum)))
    /\ UNCHANGED <<profile, transactions, rowGuard, started>>

\* a lookup whose error is not read
AfterRateMut(call, o) ==
    IF o = "throw" THEN Caught(call, "rate threw")
    ELSE WithPoints(call, AmountInUSD(call.amount, call.currency, call.rate))

\* where the call goes after the rate lookup: a reported error is returned at
\* once, otherwise pointsNeeded is computed and the profile is fetched next
AfterRate(call, o) ==
    CASE o = "throw" -> Caught(call, "rate threw")
      [] o = "error" -> [Return(call, Err("rate error")) EXCEPT !.fault = TRUE]
      [] OTHER -> WithPoints(call, AmountInUSD(call.amount, call.currency, call.rate))

\* SettingsService.getExchangeRate(currency, 'USD')
WalletRate(c) ==
    /\ At(c, "processWalletPayment", "w_rate")
    /\ \E o \in {"ok", "none", "error", "throw"} :
        LET rate == IF o = "ok" THEN ExchangeRates[<<calls[c].currency, "USD">>] ELSE NoNum
            call == [calls[c] EXCEPT !.lookups = @ + 1, !.rate = rate, !.rateAnswer = o]
        IN  Set(c, AfterRate(call, o))
    /\ UNCHANGED <<profile, transactions, rowGuard, started>>

\* ProfileService.fetchProfileById(userId) and the balance check
WalletProfile(c) ==
    /\ At(c, "processWalletPayment", "w_profile")
    /\ \E o \in {"ok", "none", "error", "throw"} :
        LET call == calls[c]
        IN  Set(c, CASE o = "throw" -> Caught(call, "profile threw")
                     [] o = "error" -> [Return(call, Err("profile error")) EXCEPT !.fault = TRUE]
                     [] o = "none" -> Return(call, Err("User profile not found"))
                     [] OTHER ->
                        LET got == [call EXCEPT !.fetchedPoints = profile.points]
                        IN  IF InsufficientPoints(profile.points, call.pointsNeeded)
                            THEN Return(got, Err("Insufficient points"))
                            ELSE [got EXCEPT !.pc = "w_debit"])
    /\ UNCHANGED <<profile, transactions, rowGuard, started>>

\* what a successful ProfileService.updateUserPoints(userId, delta) leaves in
\* the profile: the delta is applied to the stored balance, whatever it is
UpdateUserPoints(delta) == [profile EXCEPT !.points = @ + delta]

\* ProfileService.updateUserPoints(userId, -pointsNeeded)
WalletDebit(c) ==
    /\ At(c, "processWalletPayment", "w_debit")
    /\ \E o \in Outcomes :
        LET call == [calls[c] EXCEPT !.pointCalls = @ + 1]
        IN  /\ Set(c, CASE o = "throw" -> Caught(call, "points threw")
                        [] o = "error" -> [Return(call, Err("points error")) EXCEPT !.fault = TRUE]
                        [] OTHER -> [call EXCEPT !.debits = @ + 1, !.pc = "w_insert"])
            /\ profile' = IF o = "ok"
                          THEN UpdateUserPoints(-call.pointsNeeded)
                          ELSE profile
    /\ UNCHANGED <<transactions, rowGuard, started>>

\* supabase.from('transactions').insert({... status: 'completed' ...}).select().single()
WalletInsert(c) ==
    /\ At(c, "processWalletPayment", "w_insert")
    /\ \E o \in Outcomes :
        LET call == calls[c]
            row == WalletRow(Len(transactions) + 1, c, call)
        IN  /\ o = "ok" => Room
            /\ Set(c, CASE o = "throw" -> Caught(call, "insert threw")
                        [] o = "error" -> [call EXCEPT !.pc = "w_refund", !.fault = TRUE,
                                                       !.errText = "insert error"]
                        [] OTHER -> Return([call EXCEPT !.tx = row.id], Ok(row)))
            /\ transactions' = IF o = "ok" THEN Append(transactions, row) ELSE transactions
    /\ UNCHANGED <<profile, rowGuard, started>>

\* the compensating ProfileService.updateUserPoints(userId, pointsNeeded); its
\* result is not read
WalletRefund(c) ==
    /\ At(c, "processWalletPayment", "w_refund")
    /\ \E o \in Outcomes :
        LET call == [calls[c] EXCEPT !.pointCalls = @ + 1]
        IN  /\ Set(c, CASE o = "throw" -> Caught(call, "points threw")
                        [] o = "error" -> Return(call, Err(call.errText))
                        [] OTHER -> Return([call EXCEPT !.credits = @ + 1], Err(call.errText)))
            /\ profile' = IF o = "ok"
                          THEN UpdateUserPoints(call.pointsNeeded)
                          ELSE profile
    /\ UNCHANGED <<transactions, rowGuard, started>>

Wallet(c) ==
    \/ WalletSettings(c)
    \/ WalletRate(c)
    \/ WalletProfile(c)
    \/ WalletDebit(c)
    \/ WalletInsert(c)
    \/ WalletRefund(c)

-----------------------------------------------------------------------------
(* updateTransactionStatus *)

StartUpdate(c, id, status, gw) ==
    /\ Invoke(c)
    /\ Set(c, [Begin("updateTransactionStatus", "u_update") EXCEPT
                  !.txId = id, !.status = status, !.gw = gw])
    /\ UNCHANGED <<profile, transactions, rowGuard>>

\* updateData: status always, gateway_transaction_id only when one is given
UpdateData(row, status, gw) ==
    [row EXCEPT !.status = status,
                !.gateway_transaction_id = IF gw # Null THEN gw ELSE @]

\* a re-read that never recognises a settled row
AlreadyProcessedMut(existing) == FALSE

\* existingTransaction && ['completed','failed','refunded'].includes(status)
AlreadyProcessed(existing) == existing # <<>> /\ existing[1].status \in Terminal

\* supabase.from('transactions').update(updateData).eq('id', id).select()...limit(1)
UpdateApply(c) ==
    /\ At(c, "updateTransactionStatus", "u_update")
    /\ \E o \in Outcomes :
        LET call == calls[c]
            row == UpdateData(Row(call.txId), call.status, call.gw)
            hit == o = "ok" /\ Matches(call.txId)
        IN  /\ Set(c, CASE o = "throw" -> Caught(call, "update threw")
                        [] o = "error" -> [Return(call, Err("update error")) EXCEPT !.fault = TRUE]
                        [] hit -> Return(call, Ok(row))
                        [] OTHER -> [call EXCEPT !.pc = "u_reread", !.reread = TRUE])
            /\ transactions' = IF hit THEN [transactions EXCEPT ![call.txId] = row]
                               ELSE transactions
    /\ UNCHANGED <<profile, rowGuard, started>>

\* the re-read after a zero-row update: select('*').eq('id', id).maybeSingle()
UpdateReread(c) ==
    /\ At(c, "updateTransactionStatus", "u_reread")
    /\ \E o \in Outcomes :
        LET call == calls[c]
            existing == IF Exists(call.txId) THEN <<Row(call.txId)>> ELSE <<>>
        IN  Set(c, CASE o = "throw" -> Caught(call, "select threw")
                     [] o = "error" -> [Return(call, Err("select error")) EXCEPT !.fault = TRUE]
                     [] AlreadyProcessed(existing) -> Return(call, Ok(existing[1]))
                     [] OTHER -> Return(call, Err("Transaction not found")))
    /\ UNCHANGED <<profile, transactions, rowGuard, started>>

UpdateStatus(c) ==
    \/ UpdateApply(c)
    \/ UpdateReread(c)

\* a gateway webhook settles a pending row whose initiation the gateway accepted
Webhook ==
    /\ \E id \in 1..Len(transactions), status \in {"completed", "failed"} :
        /\ Row(id).status = "pending"
        /\ Row(id).notified
        /\ transactions' = [transactions EXCEPT ![id].status = status]
    /\ UNCHANGED <<profile, rowGuard, calls, started, modal>>

-----------------------------------------------------------------------------
(* createTransaction, also as called by the two gateway initiations *)

Gateways == {"initializeStripePayment", "initializePaystackPayment"}

PaymentMethodOf(op) ==
    CASE op = "initializeStripePayment" -> "stripe"
      [] op = "initializePaystackPayment" -> "paystack"
      [] OTHER -> "paypal"

\* the currency the gateway requires
GatewayCurrency(op) == IF op = "initializePaystackPayment" THEN "NGN" ELSE "USD"

\* a row inserted as already completed
PendingRowSettled(id, c, call) ==
    [id |-> id, by |-> c, user_id |-> "u1",
     amount |-> call.converted, currency |-> call.toCurrency,
     original_amount |-> call.originalAmount, original_currency |-> call.userCurrency,
     payment_method |-> PaymentMethodOf(call.op), status |-> "completed",
     gateway_transaction_id |-> Null, stripe_payment_intent_id |-> Null,
     notified |-> FALSE, metadata |-> NoMeta]

\* the row createTransaction inserts; the gateways pass the caller's amount and
\* currency in metadata only
PendingRow(id, c, call) ==
    [id |-> id, by |-> c, user_id |-> "u1",
     amount |-> call.converted, currency |-> call.toCurrency,
     original_amount |-> call.originalAmount, original_currency |-> call.userCurrency,
     payment_method |-> PaymentMethodOf(call.op), status |-> "pending",
     gateway_transaction_id |-> Null, stripe_payment_intent_id |-> Null,
     notified |-> FALSE,
     metadata |-> IF call.op \in Gateways
                  THEN [NoMeta EXCEPT !.original_amount = call.amount,
                                      !.original_currency = call.currency]
                  ELSE NoMeta]

StartCreate(c, amount, currency) ==
    /\ Invoke(c)
    /\ Room
    /\ Set(c, [Begin("createTransaction", "c_profile") EXCEPT
                  !.amount = amount, !.currency = currency,
                  !.converted = amount, !.toCurrency = currency])
    /\ UNCHANGED <<profile, transactions, rowGuard>>

\* profile?.currency || 'USD'; the lookup's error is not read
UserCurrency(o) == IF o = "ok" THEN profile.currency ELSE "USD"

CreateProfile(c) ==
    /\ calls[c].pc = "c_profile"
    /\ \E o \in {"ok", "none", "error", "throw"} :
        LET call == [calls[c] EXCEPT !.userCurrency = UserCurrency(o),
                                     !.originalAmount = calls[c].converted]
        IN  Set(c, IF o = "throw" THEN Caught(calls[c], "profile threw")
                   ELSE IF call.toCurrency # call.userCurrency
                        THEN [call EXCEPT !.pc = "c_rate"]
                        ELSE [call EXCEPT !.pc = "c_insert"])
    /\ UNCHANGED <<profile, transactions, rowGuard, started>>

\* getExchangeRate(originalCurrency, userCurrency); its error is not read
CreateRate(c) ==
    /\ calls[c].pc = "c_rate"
    /\ \E o \in {"ok", "none", "error", "throw"} :
        LET call == [calls[c] EXCEPT !.lookups = @ + 1]
            rate == IF o = "ok" THEN ExchangeRates[<<call.toCurrency, call.userCurrency>>]
                    ELSE NoNum
        IN  Set(c, IF o = "throw" THEN Caught(call, "rate threw")
                   ELSE [call EXCEPT !.pc = "c_insert",
                                     !.originalAmount = IF Truthy(rate)
                                                        THEN Mul(call.converted, rate) ELSE @])
    /\ UNCHANGED <<profile, transactions, rowGuard, started>>

\* the insert; a gateway initiation goes on to its HTTP call with the new row
CreateInsert(c) ==
    /\ calls[c].pc = "c_insert"
    /\ \E o \in Outcomes :
        LET call == calls[c]
            row == PendingRow(Len(transactions) + 1, c, call)
            made == [call EXCEPT !.tx = row.id]
        IN  /\ o = "ok" => Room
            /\ Set(c, CASE o = "throw" -> Caught(call, "insert threw")
                        [] o = "error" -> [Return(call, Err("insert error")) EXCEPT !.fault = TRUE]
                        [] call.op \in Gateways -> [made EXCEPT !.pc = "g_http"]
                        [] OTHER -> Return(made, Ok(row)))
            /\ transactions' = IF o = "ok" THEN Append(transactions, row) ELSE transactions
    /\ UNCHANGED <<profile, rowGuard, started>>

CreateTransaction(c) ==
    \/ CreateProfile(c)
    \/ CreateRate(c)
    \/ CreateInsert(c)

-----------------------------------------------------------------------------
(* initializeStripePayment / initializePaystackPayment *)

StartGateway(c, op, amount, currency) ==
    /\ Invoke(c)
    /\ Room
    /\ Set(c, [Begin(op, "g_profile") EXCEPT
                  !.amount = amount, !.currency = currency,
                  !.toCurrency = GatewayCurrency(op)])
    /\ UNCHANGED <<profile, transactions, rowGuard>>

\* usdAmount / ngnAmount: converted only when a rate came back
GatewayAmount(amount, rate) == IF Truthy(rate) THEN Mul(amount, rate) ELSE amount

\* fetchProfileById: userCurrency is computed and not used
GatewayProfile(c) ==
    /\ calls[c].op \in Gateways /\ calls[c].pc = "g_profile"
    /\ \E o \in {"ok", "throw"} :
        LET call == calls[c]
        IN  Set(c, IF o = "throw" THEN Caught(call, "profile threw")
                   ELSE IF call.currency # call.toCurrency
                        THEN [call EXCEPT !.pc = "g_rate"]
                        ELSE [call EXCEPT !.converted = call.amount, !.pc = "c_profile"])
    /\ UNCHANGED <<profile, transactions, rowGuard, started>>

\* getExchangeRate(currency, 'USD' | 'NGN'); its error is not read
GatewayRate(c) ==
    /\ calls[c].op \in Gateways /\ calls[c].pc = "g_rate"
    /\ \E o \in {"ok", "none", "error", "throw"} :
        LET call == [calls[c] EXCEPT !.lookups = @ + 1]
            rate == IF o = "ok" THEN ExchangeRates[<<call.currency, call.toCurrency>>]
                    ELSE NoNum
        IN  Set(c, IF o = "throw" THEN Caught(call, "rate threw")
                   ELSE [call EXCEPT !.converted = GatewayAmount(call.amount, rate),
                                     !.pc = "c_profile"])
    /\ UNCHANGED <<profile, transactions, rowGuard, started>>

\* the POST to the serverless function and the reading of its response
GatewayHttp(c) ==
    /\ calls[c].op \in Gateways /\ calls[c].pc = "g_http"
    /\ \E o \in {"ok", "nosecret", "notok", "throw"} :
        LET call == [calls[c] EXCEPT !.http = @ + 1]
        IN  /\ Set(c, CASE o = "ok" -> [call EXCEPT !.pc = "g_ref"]
                        [] o = "nosecret" ->
                            [call EXCEPT !.pc = "g_fail", !.errText = "no secret returned"]
                        [] o = "notok" ->
                            [call EXCEPT !.pc = "g_fail", !.errText = "gateway error"]
                        [] OTHER ->
                            [call EXCEPT !.pc = "g_fail", !.errText = "fetch threw"])
            /\ transactions' = IF o = "ok"
                               THEN [transactions EXCEPT ![call.tx].notified = TRUE]
                               ELSE transactions
    /\ UNCHANGED <<profile, rowGuard, started>>

\* update({stripe_payment_intent_id | gateway_transaction_id, metadata}).eq('id', id)
WithReference(row, call) ==
    [row EXCEPT
        !.stripe_payment_intent_id = IF call.op = "initializeStripePayment" THEN "ref" ELSE @,
        !.gateway_transaction_id = IF call.op = "initializePaystackPayment" THEN "ref" ELSE @,
        !.metadata = [PendingRow(row.id, row.by, call).metadata EXCEPT !.reference = "ref"]]

\* the reference update: awaited inside the inner try, its result not read
GatewayReference(c) ==
    /\ calls[c].op \in Gateways /\ calls[c].pc = "g_ref"
    /\ \E o \in Outcomes :
        LET call == calls[c]
            hit == o = "ok" /\ Matches(call.tx)
        IN  /\ Set(c, IF o = "throw"
                      THEN [call EXCEPT !.pc = "g_fail", !.errText = "update threw",
                                        !.fault = TRUE]
                      ELSE Return([call EXCEPT !.fault = (@ \/ o = "error")],
                                  Ok([secret |-> "secret", transactionId |-> call.tx])))
            /\ transactions' = IF hit
                               THEN [transactions EXCEPT
                                        ![call.tx] = WithReference(Row(call.tx), call)]
                               ELSE transactions
    /\ UNCHANGED <<profile, rowGuard, started>>

\* update({status: 'failed', metadata: {..., error}}).eq('id', id)
MarkFailed(row, call) ==
    [row EXCEPT !.status = "failed",
                !.metadata = [PendingRow(row.id, row.by, call).metadata EXCEPT
                                 !.error = call.errText]]

\* the inner catch: marks the row failed (result not read), then rethrows
GatewayFailure(c) ==
    /\ calls[c].op \in Gateways /\ calls[c].pc = "g_fail"
    /\ \E o \in Outcomes :
        LET call == calls[c]
            hit == o = "ok" /\ Matches(call.tx)
        IN  /\ Set(c, CASE o = "throw" -> Caught(call, "update threw")
                        [] o = "error" -> Caught(call, call.errText)
                        [] OTHER -> [Caught(call, call.errText) EXCEPT !.fault = call.fault])
            /\ transactions' = IF hit
                               THEN [transactions EXCEPT
                                        ![call.tx] = MarkFailed(Row(call.tx), call)]
                               ELSE transactions
    /\ UNCHANGED <<profile, rowGuard, started>>

Gateway(c) ==
    \/ GatewayProfile(c)
    \/ GatewayRate(c)
    \/ GatewayHttp(c)
    \/ GatewayReference(c)
    \/ GatewayFailure(c)

-----------------------------------------------------------------------------
(* payment_methods: reference data; name is the method's rank in name order *)

Types == {"wallet", "stripe", "paypal", "paystack"}

Method(id, name, type, active, supported, default) ==
    [id |-> id, name |-> name, type |-> type, is_active |-> active,
     supported_currencies |-> supported, default_currency |-> default]

\* supported_currencies is <<>> when the config has none, <<list>> when it has one
PaymentMethodsTable ==
    << Method(1, 6, "wallet", TRUE, <<>>, Null),
       Method(2, 4, "stripe", TRUE, <<{"USD", "NGN"}>>, Null),
       Method(3, 3, "paystack", TRUE, <<>>, "NGN"),
       Method(4, 2, "paypal", TRUE, <<{"USD", "NGN"}>>, "EUR"),
       Method(5, 5, "stripe", TRUE, <<{"EUR"}>>, "USD"),
       Method(6, 1, "wallet", FALSE, <<>>, Null),
       Method(7, 7, "paypal", TRUE, <<{}>>, "EUR") >>

RECURSIVE SelectSeqBy(_, _)
\* the elements of seq that satisfy keep, in seq's order
SelectSeqBy(seq, keep) ==
    IF seq = <<>> THEN <<>>
    ELSE IF Head(seq) \in keep THEN <<Head(seq)>> \o SelectSeqBy(Tail(seq), keep)
         ELSE SelectSeqBy(Tail(seq), keep)

RECURSIVE OrderByName(_)
\* .order('name'): ascending by name
OrderByName(set) ==
    IF set = {} THEN <<>>
    ELSE LET first == CHOOSE m \in set : \A o \in set : m.name <= o.name
         IN  <<first>> \o OrderByName(set \ {first})

Range(seq) == {seq[i] : i \in DOMAIN seq}

\* select('*').eq('is_active', true).order('name')
ActiveMethods == OrderByName({m \in Range(PaymentMethodsTable) : m.is_active})

StartGetMethods(c) ==
    /\ Invoke(c)
    /\ Set(c, Begin("getPaymentMethods", "m_query"))
    /\ UNCHANGED <<profile, transactions, rowGuard>>

\* the outcome of getPaymentMethods for a store answer o
MethodsResult(o) ==
    CASE o = "throw" -> Err("select threw")
      [] o = "error" -> Err("select error")
      [] OTHER -> Ok(ActiveMethods)

GetPaymentMethods(c) ==
    /\ At(c, "getPaymentMethods", "m_query")
    /\ \E o \in Outcomes :
        Set(c, [Return(calls[c], MethodsResult(o)) EXCEPT
                   !.queried = TRUE, !.fault = o # "ok"])
    /\ UNCHANGED <<profile, transactions, rowGuard, started>>

StartGetMethodById(c, id) ==
    /\ Invoke(c)
    /\ Set(c, [Begin("getPaymentMethodById", "i_query") EXCEPT !.txId = id])
    /\ UNCHANGED <<profile, transactions, rowGuard>>

\* select('*').eq('id', id).eq('is_active', true).single(): no row is an error
GetPaymentMethodById(c) ==
    /\ At(c, "getPaymentMethodById", "i_query")
    /\ \E o \in Outcomes :
        LET call == [calls[c] EXCEPT !.queried = TRUE]
            found == {m \in Range(PaymentMethodsTable) : m.id = call.txId /\ m.is_active}
        IN  Set(c, CASE o = "throw" -> Caught(call, "select threw")
                     [] o = "error" \/ found = {} ->
                            [Return(call, Err("select error")) EXCEPT !.fault = TRUE]
                     [] OTHER -> Return(call, Ok(CHOOSE m \in found : TRUE)))
    /\ UNCHANGED <<profile, transactions, rowGuard, started>>

-----------------------------------------------------------------------------
(* getAvailablePaymentMethods *)

StartAvailable(c, currency) ==
    /\ Invoke(c)
    /\ Set(c, [Begin("getAvailablePaymentMethods", "a_settings") EXCEPT
                  !.currency = currency])
    /\ UNCHANGED <<profile, transactions, rowGuard>>

\* a currency filter that accepts a match of either config entry
SupportsCurrencyAsClaimed(method, currency) ==
    \/ method.supported_currencies # <<>> /\ currency \in method.supported_currencies[1]
    \/ method.default_currency = currency
    \/ method.supported_currencies = <<>> /\ method.default_currency = Null

\* the currency filter of one method: supported_currencies decides when
\* present, default_currency otherwise, and no config accepts every currency
SupportsCurrency(method, currency) ==
    IF method.supported_currencies # <<>>
    THEN currency \in method.supported_currencies[1]
    ELSE IF method.default_currency # Null
         THEN method.default_currency = currency
         ELSE TRUE

\* no filtering by the country's enabled types
EnabledOnlyMut(all, enabled) == all

\* allMethods.filter(method => enabledMethods?.includes(method.type))
EnabledOnly(all, enabled) ==
    SelectSeqBy(all, {m \in Range(all) : enabled # <<>> /\ m.type \in enabled[1]})

\* the currency filter applies only when a currency is given
ForCurrency(methods, currency) ==
    IF currency # Null
    THEN SelectSeqBy(methods, {m \in Range(methods) : SupportsCurrency(m, currency)})
    ELSE methods

\* SettingsService.getPaymentGatewaySettings(countryCode)
AvailableSettings(c, choices) ==
    /\ At(c, "getAvailablePaymentMethods", "a_settings")
    /\ \E o \in {"ok", "none", "error", "throw"}, enabled \in choices \cup {{}} :
        /\ (o # "ok") => enabled = {}
        /\ LET call == calls[c]
           IN  Set(c, CASE o = "throw" -> Caught(call, "settings threw")
                        [] o = "error" ->
                            [Return(call, Err("settings error")) EXCEPT !.fault = TRUE]
                        [] OTHER ->
                            [call EXCEPT !.pc = "a_methods",
                                         !.enabled = IF o = "ok" THEN <<enabled>> ELSE <<>>])
    /\ UNCHANGED <<profile, transactions, rowGuard, started>>

\* this.getPaymentMethods(), then the two filters
AvailableMethods(c) ==
    /\ At(c, "getAvailablePaymentMethods", "a_methods")
    /\ \E o \in Outcomes :
        LET call == [calls[c] EXCEPT !.queried = TRUE, !.fault = o # "ok"]
            all == MethodsResult(o)
        IN  Set(c, IF all.error # Null THEN Return(call, Err(all.error))
                   ELSE Return(call, Ok(ForCurrency(EnabledOnly(all.data[1], call.enabled),
                                                    call.currency))))
    /\ UNCHANGED <<profile, transactions, rowGuard, started>>

-----------------------------------------------------------------------------
(* convertAmount *)

\* equal currencies return at once, before any lookup
ConvertSame(call) == Return(call, Ok(call.amount))

StartConvert(c, amount, from, to) ==
    /\ Invoke(c)
    /\ LET call == [Begin("convertAmount", "v_rate") EXCEPT
                       !.amount = amount, !.currency = from, !.toCurrency = to]
       IN  Set(c, IF from = to THEN ConvertSame(call) ELSE call)
    /\ UNCHANGED <<profile, transactions, rowGuard>>

\* a conversion that falls back to the unconverted amount
ConvertedMut(amount, rate) == Ok(IF Truthy(rate) THEN Mul(amount, rate) ELSE amount)

\* the result for a rate that came back without an error
Converted(amount, rate) ==
    IF ~Truthy(rate) THEN Err("Exchange rate not found") ELSE Ok(Mul(amount, rate))

\* SettingsService.getExchangeRate(fromCurrency, toCurrency)
ConvertRate(c) ==
    /\ At(c, "convertAmount", "v_rate")
    /\ \E o \in {"ok", "none", "zero", "error", "throw"} :
        LET rate == CASE o = "ok" -> ExchangeRates[<<calls[c].currency, calls[c].toCurrency>>]
                      [] o = "zero" -> R(0, 1)
                      [] OTHER -> NoNum
            call == [calls[c] EXCEPT !.lookups = @ + 1, !.rate = rate]
        IN  Set(c, CASE o = "throw" -> Caught(call, "rate threw")
                     [] o = "error" -> [Return(call, Err("rate error")) EXCEPT !.fault = TRUE]
                     [] OTHER -> Return(call, Converted(call.amount, rate)))
    /\ UNCHANGED <<profile, transactions, rowGuard, started>>

-----------------------------------------------------------------------------
(* getUserTransactions / getAllTransactions *)

Users == {"u1", "admin", "nobody"}

\* the profiles table as fetchProfileById sees it: <<>> when there is no profile
RoleOf(userId) ==
    CASE userId = "u1" -> <<"user">>
      [] userId = "admin" -> <<"admin">>
      [] OTHER -> <<>>

RECURSIVE Reverse(_)
Reverse(seq) == IF seq = <<>> THEN <<>> ELSE Reverse(Tail(seq)) \o <<Head(seq)>>

\* the rows a query selects, newest first, and their exact count
Page(keep) ==
    LET rows == Reverse(SelectSeqBy(transactions, keep))
    IN  [transactions |-> rows, totalCount |-> Len(rows)]

StartUserTransactions(c, userId, status) ==
    /\ Invoke(c)
    /\ Set(c, [Begin("getUserTransactions", "t_query") EXCEPT
                  !.userCurrency = userId, !.status = status])
    /\ UNCHANGED <<profile, transactions, rowGuard>>

StartAllTransactions(c, adminId, status) ==
    /\ Invoke(c)
    /\ Set(c, [Begin("getAllTransactions", "t_admin") EXCEPT
                  !.userCurrency = adminId, !.status = status])
    /\ UNCHANGED <<profile, transactions, rowGuard>>

\* a check that only looks at the lookup's error
UnauthorizedMut(o, role) == o # "ok"

\* adminError || !adminProfile || adminProfile.role !== 'admin'
Unauthorized(o, role) == o # "ok" \/ role = <<>> \/ role[1] # "admin"

\* ProfileService.fetchProfileById(adminId)
AllTransactionsAdmin(c) ==
    /\ At(c, "getAllTransactions", "t_admin")
    /\ \E o \in {"ok", "error", "throw"} :
        LET call == calls[c]
        IN  Set(c, CASE o = "throw" -> Caught(call, "profile threw")
                     [] Unauthorized(o, RoleOf(call.userCurrency)) ->
                            [Return(call, Err("Unauthorized")) EXCEPT !.fault = o # "ok"]
                     [] OTHER -> [call EXCEPT !.pc = "t_query"])
    /\ UNCHANGED <<profile, transactions, rowGuard, started>>

\* the query on transactions with its optional filters
TransactionsQuery(c) ==
    /\ calls[c].op \in {"getUserTransactions", "getAllTransactions"}
    /\ calls[c].pc = "t_query"
    /\ \E o \in Outcomes :
        LET call == [calls[c] EXCEPT !.queried = TRUE]
            keep == {r \in Range(transactions) :
                        /\ call.op = "getUserTransactions" => r.user_id = call.userCurrency
                        /\ call.status # Null => r.status = call.status}
        IN  Set(c, CASE o = "throw" -> Caught(call, "select threw")
                     [] o = "error" -> [Return(call, Err("select error")) EXCEPT !.fault = TRUE]
                     [] OTHER -> Return(call, Ok(Page(keep))))
    /\ UNCHANGED <<profile, transactions, rowGuard, started>>

Lookups(c, choices) ==
    \/ GetPaymentMethods(c)
    \/ GetPaymentMethodById(c)
    \/ AvailableSettings(c, choices)
    \/ AvailableMethods(c)
    \/ ConvertRate(c)
    \/ AllTransactionsAdmin(c)
    \/ TransactionsQuery(c)

-----------------------------------------------------------------------------
(* The service used by one caller at a time, every operation available *)

OneAmount == {R(50, 1)}

Invocation(c) ==
    \/ \E amount \in OneAmount, currency \in {"EUR"} :
            \/ StartWallet(c, amount, currency)
            \/ StartCreate(c, amount, currency)
            \/ \E op \in Gateways : StartGateway(c, op, amount, currency)
            \/ StartConvert(c, amount, currency, "USD")
    \/ \E id \in 1..MaxTx, status \in {"completed", "failed"} :
            StartUpdate(c, id, status, Null)
    \/ StartGetMethods(c)
    \/ StartGetMethodById(c, 1)
    \/ StartAvailable(c, "EUR")
    \/ StartUserTransactions(c, "u1", Null)
    \/ \E userId \in {"u1", "admin"} : StartAllTransactions(c, userId, Null)

Next ==
    \/ Invocation("a")
    \/ Wallet("a")
    \/ UpdateStatus("a")
    \/ CreateTransaction("a")
    \/ Gateway("a")
    \/ Lookups("a", {{"wallet", "stripe"}})

Spec == Init /\ [][Next]_vars

-----------------------------------------------------------------------------
(* processWalletPayment alone, over more amounts and both currencies *)

WalletNext ==
    \/ \E amount \in Amounts, currency \in {"USD", "EUR"} : StartWallet("a", amount, currency)
    \/ Wallet("a")

SpecWallet == Init /\ [][WalletNext]_vars

Done(c, op) == calls[c].op = op /\ calls[c].pc = "done"

\* a completed wallet row inserted by the call in slot c
WalletRowOf(c) ==
    {i \in DOMAIN transactions :
        /\ i > calls[c].txBefore
        /\ Row(i).by = c
        /\ Row(i).payment_method = "wallet"
        /\ Row(i).status = "completed"}

\* C1: when a processWalletPayment call has returned, the balance is what it
\* was before the call or a completed wallet row of that call exists
C1_BalanceRestoredOrRowPersisted ==
    \A c \in Slots :
        Done(c, "processWalletPayment") =>
            \/ profile.points = calls[c].balBefore
            \/ WalletRowOf(c) # {}

\* C2: a call that fetched a balance below pointsNeeded returned an error with
\* no data, never called updateUserPoints and inserted no row
C2_InsufficientPointsNoMutation ==
    \A c \in Slots :
        (/\ Done(c, "processWalletPayment")
         /\ calls[c].fetchedPoints # -1
         /\ calls[c].fetchedPoints < calls[c].pointsNeeded)
        => /\ calls[c].result.data = <<>>
           /\ calls[c].result.error # Null
           /\ calls[c].pointCalls = 0
           /\ Len(transactions) = calls[c].txBefore
           /\ profile.points = calls[c].balBefore

C2_Witness ==
    \E c \in Slots :
        /\ Done(c, "processWalletPayment")
        /\ calls[c].fetchedPoints # -1
        /\ calls[c].fetchedPoints < calls[c].pointsNeeded
        /\ calls[c].result.error = "Insufficient points"

\* the amount in USD the claim speaks of: the amount itself for USD, the amount
\* times the fetched rate otherwise (no value when no rate came back)
C10_AmountConverted(call) ==
    IF call.currency = "USD" THEN call.amount
    ELSE IF Truthy(call.rate) THEN Mul(call.amount, call.rate)
    ELSE NoNum

-----------------------------------------------------------------------------
(* The two gateway initiations alone, over all currencies *)

GatewayNext ==
    \/ \E op \in Gateways, amount \in OneAmount, currency \in Currencies :
            StartGateway("a", op, amount, currency)
    \/ CreateTransaction("a")
    \/ Gateway("a")
    \/ Webhook

SpecGateway == Init /\ [][GatewayNext]_vars

HttpFailures == {"no secret returned", "gateway error", "fetch threw"}

\* the HTTP initiation of the call in slot c was issued and failed
HttpFailed(c) ==
    /\ calls[c].op \in Gateways
    /\ calls[c].http > 0
    /\ calls[c].errText \in HttpFailures

\* C5: when an initiation whose HTTP call failed has returned, its row is
\* failed, the row's metadata holds the error text, and the caller got that error
C5_FailedInitiationMarksRowFailed ==
    \A c \in Slots :
        (calls[c].pc = "done" /\ HttpFailed(c)) =>
            /\ Row(calls[c].tx).status = "failed"
            /\ Row(calls[c].tx).metadata.error = calls[c].errText
            /\ calls[c].result = Err(calls[c].errText)

\* C4: a row whose status is completed, failed or refunded keeps that status
C4_TerminalStatusIsFinal ==
    [][\A i \in DOMAIN transactions :
          Row(i).status \in Terminal => transactions'[i].status = Row(i).status]_vars

\* C6: no operation lets an exception escape, and every operation that has
\* returned gave either data with a null error or an error with null data
C6_UniformResultNoEscape ==
    \A c \in Slots :
        /\ calls[c].pc # "escaped"
        /\ calls[c].pc = "done" =>
            \/ calls[c].result.error = Null /\ Len(calls[c].result.data) = 1
            \/ calls[c].result.error \notin {Null, "pending"} /\ calls[c].result.data = <<>>

\* a gateway initiation returned after its failure handler's own update threw
C6_Witness ==
    \E c \in Slots :
        /\ calls[c].pc = "done" /\ HttpFailed(c)
        /\ calls[c].result = Err("update threw")
        /\ Row(calls[c].tx).status = "pending"

-----------------------------------------------------------------------------
(* The read-only operations alone, over every enabled set and currency *)

LookupNext ==
    \/ \E currency \in Currencies \cup {Null} : StartAvailable("a", currency)
    \/ \E amount \in Amounts, from \in Currencies, to \in Currencies :
            StartConvert("a", amount, from, to)
    \/ StartGetMethods("a")
    \/ \E id \in {1, 6, 9} : StartGetMethodById("a", id)
    \/ \E userId \in Users, status \in {Null, "pending"} :
            \/ StartUserTransactions("a", userId, status)
            \/ StartAllTransactions("a", userId, status)
    \/ Lookups("a", SUBSET Types)

SpecLookup == Init /\ [][LookupNext]_vars

\* the active methods enabled for the country of the call in slot c
CountryEnabled(c) ==
    {m \in Range(ActiveMethods) :
        calls[c].enabled # <<>> /\ m.type \in calls[c].enabled[1]}

\* getAvailablePaymentMethods returned a list for the call in slot c
Listed(c) == Done(c, "getAvailablePaymentMethods") /\ calls[c].result.error = Null

\* C7 as stated: with a currency, a country-enabled active method is kept iff
\* supported_currencies contains the currency, or default_currency equals it,
\* or the method has no currency config
C7_KeptIffAnyConfigMatches ==
    \A c \in Slots :
        (Listed(c) /\ calls[c].currency # Null) =>
            \A m \in CountryEnabled(c) :
                m \in Range(calls[c].result.data[1]) <=>
                    \/ m.supported_currencies # <<>>
                       /\ calls[c].currency \in m.supported_currencies[1]
                    \/ m.default_currency = calls[c].currency
                    \/ m.supported_currencies = <<>> /\ m.default_currency = Null

\* C7 as amended: default_currency is consulted only when the config has no
\* supported_currencies; for EUR a method declaring ['USD','NGN'] is excluded
\* and a method with no currency config is included
C7_KeptBySupportedThenDefault ==
    \A c \in Slots :
        (Listed(c) /\ calls[c].currency # Null) =>
            /\ Range(calls[c].result.data[1]) \subseteq CountryEnabled(c)
            /\ \A m \in CountryEnabled(c) :
                m \in Range(calls[c].result.data[1]) <=>
                    \/ m.supported_currencies # <<>>
                       /\ calls[c].currency \in m.supported_currencies[1]
                    \/ m.supported_currencies = <<>>
                       /\ m.default_currency = calls[c].currency
                    \/ m.supported_currencies = <<>> /\ m.default_currency = Null
            /\ calls[c].currency = "EUR" =>
                \A m \in CountryEnabled(c) :
                    /\ m.supported_currencies = <<{"USD", "NGN"}>>
                        => m \notin Range(calls[c].result.data[1])
                    /\ (m.supported_currencies = <<>> /\ m.default_currency = Null)
                        => m \in Range(calls[c].result.data[1])

C7_Witness ==
    \E c \in Slots :
        /\ Listed(c) /\ calls[c].currency = "EUR"
        /\ calls[c].enabled = <<{"wallet", "stripe", "paypal"}>>
        /\ {m.id : m \in Range(calls[c].result.data[1])} = {1, 5}

\* C8: without a currency the result is the settings lookup's error (and then
\* payment_methods was not queried), the methods lookup's error, or exactly the
\* active methods of an enabled type, in getPaymentMethods' order
C8_EnabledActiveMethodsInOrder ==
    \A c \in Slots :
        (Done(c, "getAvailablePaymentMethods") /\ calls[c].currency = Null) =>
            LET res == calls[c].result
            IN  \/ /\ res \in {Err("settings error"), Err("settings threw")}
                   /\ ~calls[c].queried
                \/ /\ res \in {Err("select error"), Err("select threw")}
                   /\ calls[c].queried
                \/ /\ res.error = Null
                   /\ Range(res.data[1]) = CountryEnabled(c)
                   /\ Len(res.data[1]) = Cardinality(CountryEnabled(c))
                   /\ \A i, j \in DOMAIN res.data[1] :
                        i < j => res.data[1][i].name < res.data[1][j].name

C8_Witness ==
    \E c \in Slots :
        /\ Listed(c) /\ calls[c].currency = Null
        /\ calls[c].enabled = <<{"wallet", "stripe"}>>
        /\ Len(calls[c].result.data[1]) = 3
        /\ calls[c].result.data[1][1].id = 2

\* C9: equal currencies give the amount back with no rate lookup; different
\* currencies give amount * rate when a rate is found and otherwise an error
\* with null data
C9_ConvertAmount ==
    \A c \in Slots :
        Done(c, "convertAmount") =>
            LET call == calls[c]
                res == call.result
            IN  /\ call.currency = call.toCurrency =>
                    res = Ok(call.amount) /\ call.lookups = 0
                /\ call.currency # call.toCurrency =>
                    /\ call.lookups = 1
                    /\ \/ /\ res.error = Null
                          /\ Truthy(call.rate)
                          /\ res.data[1].n * call.amount.d * call.rate.d
                                = call.amount.n * call.rate.n * res.data[1].d
                       \/ /\ res.data = <<>>
                          /\ res.error \notin {Null, "pending"}
                    /\ Truthy(call.rate) => res.error = Null
                    /\ ~Truthy(call.rate) => res.data = <<>>

C9_Witness ==
    \E c \in Slots :
        /\ Done(c, "convertAmount")
        /\ calls[c].amount = R(50, 1)
        /\ calls[c].currency = "EUR" /\ calls[c].toCurrency = "USD"
        /\ calls[c].result = Ok(R(55, 1))

-----------------------------------------------------------------------------
(* Two callers and the webhook on a row an earlier initiation left pending *)

\* the row a successful initializeStripePayment('u1', 50, ..., 'EUR') leaves
SeedRow ==
    LET call == [IdleCall EXCEPT
                    !.op = "initializeStripePayment",
                    !.amount = R(50, 1), !.currency = "EUR",
                    !.converted = R(55, 1), !.toCurrency = "USD",
                    !.userCurrency = "EUR", !.originalAmount = R(50, 1)]
    IN  [WithReference(PendingRow(1, "a", call), call) EXCEPT !.notified = TRUE]

ConcurrentInit ==
    /\ profile = [points |-> InitialPoints, currency |-> "EUR"]
    /\ transactions = <<SeedRow>>
    /\ rowGuard \in BOOLEAN
    /\ calls = [c \in Slots |-> IdleCall]
    /\ started = 0
    /\ modal = UnmountedModal

ConcurrentNext ==
    \/ \E c \in Slots :
        \/ \E id \in 1..(MaxTx + 1), status \in Terminal, gw \in {Null, "gw1"} :
                StartUpdate(c, id, status, gw)
        \/ UpdateStatus(c)
    \/ Webhook

SpecConcurrent == ConcurrentInit /\ [][ConcurrentNext]_vars

\* the seeded row is one the sequential service reaches
SeedRowReached == transactions = <<SeedRow>>

\* C3: an updateTransactionStatus call on an id that existed when it started,
\* whose store requests did not fail, returns that transaction with a null
\* error, whatever another call or the webhook did in between
C3_ConcurrentUpdatesSucceed ==
    \A c \in Slots :
        (/\ Done(c, "updateTransactionStatus")
         /\ calls[c].txId <= calls[c].txBefore
         /\ ~calls[c].fault)
        => /\ calls[c].result.error = Null
           /\ calls[c].result.data # <<>>
           /\ calls[c].result.data[1].id = calls[c].txId

\* two overlapping calls for the same id and status both returned success, one
\* of them through the re-read after a zero-row update
C3_Witness ==
    \E c \in Slots, d \in Slots :
        /\ c # d
        /\ Done(c, "updateTransactionStatus") /\ Done(d, "updateTransactionStatus")
        /\ calls[c].txId = 1 /\ calls[d].txId = 1
        /\ calls[c].status = calls[d].status
        /\ calls[d].overlap /\ calls[d].reread
        /\ calls[c].result.error = Null /\ calls[d].result.error = Null

-----------------------------------------------------------------------------
(* What the rows written by the three payment operations record *)

Payments == {"processWalletPayment"} \cup Gateways

\* the call in slot c is a payment operation that has inserted its row
Wrote(c) == calls[c].op \in Payments /\ calls[c].tx # 0

\* C11: the row a payment operation wrote has original_amount and
\* original_currency equal to the amount and currency its caller passed
C11_OriginalIsWhatCallerPassed ==
    \A c \in Slots :
        Wrote(c) =>
            /\ Row(calls[c].tx).original_amount = calls[c].amount
            /\ Row(calls[c].tx).original_currency = calls[c].currency

\* C12: the row a payment operation wrote is in USD (wallet, Stripe) or NGN
\* (Paystack), and when the caller's currency is another one its amount is the
\* caller's amount times the exchange rate
C12_AmountIsInRowCurrency ==
    \A c \in Slots :
        Wrote(c) =>
            LET row == Row(calls[c].tx)
            IN  /\ row.currency = GatewayCurrency(calls[c].op)
                /\ calls[c].currency = row.currency => row.amount = calls[c].amount
                /\ calls[c].currency # row.currency =>
                        row.amount = Mul(calls[c].amount,
                                         ExchangeRates[<<calls[c].currency, row.currency>>])

\* the gateway's reference id as the row of the call in slot c holds it
ReferenceOf(c) ==
    IF calls[c].op = "initializeStripePayment"
    THEN Row(calls[c].tx).stripe_payment_intent_id
    ELSE Row(calls[c].tx).gateway_transaction_id

\* C13: when a gateway initiation has returned success, the transactionId it
\* returned is the row it created, that row is pending and holds the gateway's
\* reference id
C13_SuccessHasReference ==
    \A c \in Slots :
        (calls[c].op \in Gateways /\ calls[c].pc = "done" /\ calls[c].result.error = Null) =>
            /\ calls[c].tx > calls[c].txBefore
            /\ calls[c].result.data[1].transactionId = calls[c].tx
            /\ Row(calls[c].tx).status = "pending"
            /\ ReferenceOf(c) = "ref"
            /\ Row(calls[c].tx).metadata.reference = "ref"

-----------------------------------------------------------------------------
(* Retry Payment Modal: mounting, opening and closing, the Stripe key load *)
(* and the payment-method fetch                                           *)

\* a step of the modal leaves the service and its store as they are
Mod(m) ==
    /\ modal' = m
    /\ UNCHANGED <<profile, transactions, rowGuard, calls, started>>

\* a test of stripeInstance alone
StripeUsableMut(instance, error) == instance

\* the negation of (!stripeInstance || stripeLoadError)
StripeUsable(instance, error) == instance /\ error = Null

\* the body of the second effect for a render with the given stripeInstance and
\* stripeLoadError: when isOpen (stripeInstance is never undefined) the four
\* fetches start, and fetchPaymentMethods keeps that render's Stripe state
EffectRun(m, instance, error) ==
    IF m.isOpen
    THEN [m EXCEPT !.methodFetches[StripeUsable(instance, error)] = @ + 1,
                   !.currencyFetches = @ + 1, !.loadingCurrencies = TRUE,
                   !.settingsFetches = @ + 1,
                   !.rateFetches = @ + 1]
    ELSE m

\* the parent renders the component, closed, for a promoted poll
Mount(currency, budget) ==
    /\ ~modal.mounted
    /\ Mod([modal EXCEPT !.mounted = TRUE, !.pollCurrency = currency, !.budget = budget])

\* isOpen becomes true: the first effect starts loadStripeKey, which clears
\* stripeLoadError before its first await; the second effect runs for this
\* render and again for the render that follows a cleared error
ModalOpen ==
    /\ modal.mounted /\ ~modal.isOpen /\ ~modal.redirected
    /\ modal.opens < MaxOpens
    /\ LET opened == [modal EXCEPT !.isOpen = TRUE, !.opens = @ + 1,
                                   !.keyLoads = @ + 1, !.stripeLoadError = Null]
           first == EffectRun(opened, modal.stripeInstance, modal.stripeLoadError)
       IN  Mod(IF modal.stripeLoadError # Null
               THEN EffectRun(first, modal.stripeInstance, Null)
               ELSE first)

\* the parent clears isOpen; calls in flight are not cancelled
ModalClose ==
    /\ modal.isOpen
    /\ Mod([modal EXCEPT !.isOpen = FALSE])

KeyOutcomes == {"ok", "nokey", "loadthrow", "settingsthrow"}

\* the message loadStripeKey stores for each way of failing
KeyError(o) ==
    CASE o = "nokey" -> "Stripe payment system is not configured"
      [] o = "loadthrow" -> "Failed to load Stripe payment system"
      [] OTHER -> "Failed to load payment configuration"

\* loadStripeKey after its settings lookup: a valid key gives a new loadStripe
\* promise as stripeInstance (stripeLoadError is left as it is); no valid key,
\* a throwing loadStripe or a throwing lookup set stripeLoadError and clear
\* stripeInstance.  A changed stripeInstance or stripeLoadError reruns the
\* second effect
LoadStripeKeyDone ==
    /\ modal.keyLoads > 0
    /\ \E o \in KeyOutcomes :
        LET instance == o = "ok"
            error == IF o = "ok" THEN modal.stripeLoadError ELSE KeyError(o)
            m == [modal EXCEPT !.keyLoads = @ - 1, !.stripeInstance = instance,
                               !.stripeLoadError = error]
            changed == \/ o = "ok"
                       \/ instance # modal.stripeInstance
                       \/ error # modal.stripeLoadError
        IN  Mod(IF changed THEN EffectRun(m, instance, error) ELSE m)

\* the payment method types enabled for the user's country
ModalEnabled == {"wallet", "stripe", "paystack"}

\* data?.filter(method => !(method.type === 'stripe' && (!stripeInstance || stripeLoadError)))
FilterStripe(data, usable) ==
    SelectSeqBy(data, {m \in Range(data) : ~(m.type = "stripe" /\ ~usable)})

\* the wallet method when there is one, else the first method, else unchanged
DefaultSelection(methods, selected) ==
    IF \E m \in Range(methods) : m.type = "wallet"
    THEN (CHOOSE m \in Range(methods) : m.type = "wallet").id
    ELSE IF methods # <<>> THEN methods[1].id ELSE selected

\* one fetchPaymentMethods call completes: an error or a throw leaves the list
\* as it is; otherwise the list is replaced by the data filtered with the
\* Stripe state of the render that started the call
FetchPaymentMethodsDone ==
    \E usable \in BOOLEAN, o \in {"ok", "none", "error", "throw"} :
        /\ modal.methodFetches[usable] > 0
        /\ LET m == [modal EXCEPT !.methodFetches[usable] = @ - 1]
               data == IF o = "ok"
                       THEN ForCurrency(EnabledOnly(ActiveMethods, <<ModalEnabled>>),
                                        modal.pollCurrency)
                       ELSE <<>>
               filtered == FilterStripe(data, usable)
           IN  Mod(CASE o = "error" -> [m EXCEPT !.toast = "methods error"]
                     [] o = "throw" -> [m EXCEPT !.toast = "Failed to load payment methods"]
                     [] OTHER ->
                        [m EXCEPT !.paymentMethods = filtered,
                                  !.selectedPaymentMethod = DefaultSelection(filtered, @)])

-----------------------------------------------------------------------------
(* Retry Payment Modal: handleRetryPayment *)

\* the selected entry of paymentMethods, <<>> when the list has none with that id
SelectedMethod(m) ==
    SelectSeqBy(m.paymentMethods,
                {x \in Range(m.paymentMethods) : x.id = m.selectedPaymentMethod})

\* a click on one of the listed methods: setSelectedPaymentMethod(method.id)
SelectMethod ==
    /\ modal.isOpen /\ modal.clientSecret = Null /\ ~modal.redirected
    /\ \E x \in Range(modal.paymentMethods) :
        /\ x.id # modal.selectedPaymentMethod
        /\ Mod([modal EXCEPT !.selectedPaymentMethod = x.id])

\* the click up to the awaited retryPromotedPollPayment: the two early returns,
\* then setLoading(true) and the two checks that throw into the catch clause.
\* The button is rendered while there is no clientSecret and is disabled while
\* loading; user is what useAuth() gave the render that was clicked
RetryStart ==
    /\ modal.isOpen /\ ~modal.loading /\ modal.retry = "idle" /\ ~modal.redirected
    /\ modal.clientSecret = Null
    /\ \E user \in BOOLEAN :
        LET m == [modal EXCEPT !.branch = Null, !.outcome = Null, !.user = user]
            found == SelectedMethod(modal)
        IN  Mod(CASE ~user ->
                        [m EXCEPT !.toast = "You must be logged in to perform this action"]
                  [] modal.selectedPaymentMethod = 0 ->
                        [m EXCEPT !.toast = "Please select a payment method"]
                  [] found = <<>> ->
                        [m EXCEPT !.toast = "Invalid payment method"]
                  [] /\ found[1].type = "stripe"
                     /\ ~StripeUsable(modal.stripeInstance, modal.stripeLoadError) ->
                        [m EXCEPT !.toast = "Stripe payment system is not available"]
                  [] OTHER ->
                        [m EXCEPT !.loading = TRUE, !.retry = "r_await",
                                  !.retryType = found[1].type])

\* what retryPromotedPollPayment can give back: an error, no data, a throw, or
\* data with authorizationUrl, with clientSecret, with both, or with neither
RetryOutcomes == {"error", "nodata", "throw", "url", "secret", "both", "neither"}

\* the branch handleRetryPayment takes on a result
BranchOfMut(o) ==
    CASE o \in {"error", "nodata", "throw"} -> "none"
      [] o \in {"secret", "both"} -> "form"
      [] o = "url" -> "redirect"
      [] OTHER -> "completed"

\* the branch handleRetryPayment takes on a result: authorizationUrl is tested
\* first, then clientSecret
BranchOf(o) ==
    CASE o \in {"error", "nodata", "throw"} -> "none"
      [] o \in {"url", "both"} -> "redirect"
      [] o = "secret" -> "form"
      [] OTHER -> "completed"

\* the result arrives: the branch runs, or the catch clause reports the error;
\* finally setLoading(false).  The parent's onClose clears isOpen
RetryDone ==
    /\ modal.retry = "r_await"
    /\ \E o \in RetryOutcomes :
        LET m == [modal EXCEPT !.retry = "idle", !.loading = FALSE,
                               !.outcome = o, !.branch = BranchOf(o)]
        IN  Mod(CASE BranchOf(o) = "none" -> [m EXCEPT !.toast = "retry error"]
                  [] BranchOf(o) = "redirect" -> [m EXCEPT !.redirected = TRUE]
                  [] BranchOf(o) = "form" ->
                        [m EXCEPT !.clientSecret = "secret", !.transactionId = 1]
                  [] OTHER ->
                        [m EXCEPT !.toast = "Payment processed successfully!",
                                  !.callbacks = @ \o <<"onSuccess", "onClose">>,
                                  !.isOpen = FALSE])

\* the modal over a store it never writes
ModalInit == Init /\ ~rowGuard

ModalNext ==
    \/ Mount("USD", R(50, 1))
    \/ ModalOpen
    \/ ModalClose
    \/ LoadStripeKeyDone
    \/ FetchPaymentMethodsDone
    \/ RetryStart
    \/ RetryDone

SpecModal == ModalInit /\ [][ModalNext]_vars

\* C14: when Stripe is unavailable and no payment-method fetch is in flight,
\* the selectable list holds no stripe method
C14_NoStripeWhenUnavailable ==
    (/\ ~StripeUsable(modal.stripeInstance, modal.stripeLoadError)
     /\ \A usable \in BOOLEAN : modal.methodFetches[usable] = 0)
    => \A m \in Range(modal.paymentMethods) : m.type # "stripe"

\* a handleRetryPayment call receives its result in this step
RetryReturns == modal.retry = "r_await" /\ modal'.retry = "idle"

\* what the three branches write
RetryEffects(m) == <<m.redirected, m.clientSecret, m.transactionId, m.callbacks, m.isOpen>>

-----------------------------------------------------------------------------
(* Retry Payment Modal: currencies, settings, exchange rates and the local *)
(* convertAmount                                                          *)

\* fetchCurrencies: data || ['USD'] unless the lookup reports an error or throws
FetchCurrenciesDone ==
    /\ modal.currencyFetches > 0
    /\ \E o \in {"ok", "none", "error", "throw"} :
        LET m == [modal EXCEPT !.currencyFetches = @ - 1, !.loadingCurrencies = FALSE]
        IN  Mod(CASE o = "ok" -> [m EXCEPT !.supportedCurrencies = {"USD", "EUR"}]
                  [] o = "none" -> [m EXCEPT !.supportedCurrencies = {"USD"}]
                  [] OTHER -> m)

\* fetchSettings: a truthy points_to_usd_conversion replaces the default 100
FetchSettingsDone ==
    /\ modal.settingsFetches > 0
    /\ \E o \in Outcomes, v \in ConvValues :
        LET m == [modal EXCEPT !.settingsFetches = @ - 1]
        IN  Mod(IF o = "ok" /\ v # 0 THEN [m EXCEPT !.pointsToUsdConversion = v] ELSE m)

RateRow(from, to, rate) == [from_currency |-> from, to_currency |-> to, rate |-> rate]

\* the answers of getAllExchangeRates: no rows, the one rate the service would
\* fetch, the two legs through USD, every pair, and a pair stored twice
RateLists ==
    { <<>>,
      <<RateRow("EUR", "USD", R(11, 10))>>,
      <<RateRow("NGN", "USD", R(1, 1500)), RateRow("USD", "EUR", R(10, 11))>>,
      <<RateRow("EUR", "USD", R(11, 10)), RateRow("USD", "NGN", R(1500, 1)),
        RateRow("EUR", "NGN", R(1600, 1)), RateRow("NGN", "USD", R(1, 1500))>>,
      <<RateRow("EUR", "USD", R(0, 1)), RateRow("EUR", "USD", R(6, 5)),
        RateRow("EUR", "NGN", R(0, 1)), RateRow("USD", "NGN", R(1500, 1))>> }

RECURSIVE RatesMap(_, _)
\* rates.forEach(rate => ratesMap[rate.from_currency][rate.to_currency] = rate.rate)
RatesMap(rows, map) ==
    IF rows = <<>> THEN map
    ELSE RatesMap(Tail(rows),
                  [map EXCEPT ![<<Head(rows).from_currency, Head(rows).to_currency>>] =
                                  Head(rows).rate])

\* fetchExchangeRates: the map built from the rows replaces exchangeRates when
\* rows came back; the lookup's error is not read
FetchExchangeRatesDone ==
    /\ modal.rateFetches > 0
    /\ \E o \in {"ok", "none", "throw"}, rows \in RateLists :
        LET m == [modal EXCEPT !.rateFetches = @ - 1]
        IN  Mod(IF o = "ok"
                THEN [m EXCEPT !.exchangeRates = RatesMap(rows, UnmountedModal.exchangeRates)]
                ELSE m)

\* a conversion that knows no path through USD
ModalConvertDirectOnly(amount, from, to, rates) ==
    IF from # to /\ Truthy(rates[<<from, to>>]) THEN Mul(amount, rates[<<from, to>>])
    ELSE amount

\* the modal's convertAmount over the loaded exchangeRates
ModalConvertAmount(amount, from, to, rates) ==
    IF from = to THEN amount
    ELSE IF Truthy(rates[<<from, to>>]) THEN Mul(amount, rates[<<from, to>>])
    ELSE IF Truthy(rates[<<from, "USD">>]) /\ Truthy(rates[<<"USD", to>>])
         THEN Mul(Mul(amount, rates[<<from, "USD">>]), rates[<<"USD", to>>])
    ELSE amount

\* the points cost the payment summary renders, before toLocaleString
PointsRequired(m) ==
    Mul(ModalConvertAmount(m.budget, m.pollCurrency, "USD", m.exchangeRates),
        R(m.pointsToUsdConversion, 1))

\* a render calls convertAmount with the exchangeRates of that render
ConvertAmountCall(amount, from, to) ==
    /\ modal.isOpen
    /\ Mod([modal EXCEPT !.applied =
                <<[amount |-> amount, from |-> from, to |-> to,
                   rates |-> modal.exchangeRates,
                   out |-> ModalConvertAmount(amount, from, to, modal.exchangeRates)]>>])

ModalRatesNext ==
    \/ \E currency \in Currencies, budget \in Amounts : Mount(currency, budget)
    \/ ModalOpen
    \/ FetchCurrenciesDone
    \/ FetchSettingsDone
    \/ FetchExchangeRatesDone
    \/ \E amount \in Amounts, from \in Currencies, to \in Currencies :
            ConvertAmountCall(amount, from, to)

SpecModalRates == ModalInit /\ [][ModalRatesNext]_vars

\* x is amount * r1 * r2 (all exact)
IsProduct(x, amount, r1, r2) ==
    x.n * amount.d * r1.d * r2.d = amount.n * r1.n * r2.n * x.d

One == [n |-> 1, d |-> 1]

\* C20: the local convertAmount gives the amount for equal currencies, else the
\* amount times the loaded direct rate, else the amount times the two loaded
\* rates through USD, else the amount unchanged; and when the direct rate to
\* USD is the one loaded, the points cost shown is amount * rate *
\* pointsToUsdConversion
C20_LocalConversionPaths ==
    /\ \A i \in DOMAIN modal.applied :
        LET a == modal.applied[i]
            rates == a.rates
            direct == rates[<<a.from, a.to>>]
            toUsd == rates[<<a.from, "USD">>]
            fromUsd == rates[<<"USD", a.to>>]
        IN  CASE a.from = a.to -> a.out = a.amount
              [] Truthy(direct) -> IsProduct(a.out, a.amount, direct, One)
              [] Truthy(toUsd) /\ Truthy(fromUsd) -> IsProduct(a.out, a.amount, toUsd, fromUsd)
              [] OTHER -> a.out = a.amount
    /\ (modal.mounted /\ modal.pollCurrency # "USD"
            /\ Truthy(modal.exchangeRates[<<modal.pollCurrency, "USD">>])) =>
         IsProduct(PointsRequired(modal), modal.budget,
                   modal.exchangeRates[<<modal.pollCurrency, "USD">>],
                   R(modal.pointsToUsdConversion, 1))

\* 50 NGN shown in EUR through the two legs NGN->USD and USD->EUR
C20_Witness ==
    /\ modal.applied # <<>>
    /\ LET a == modal.applied[1]
       IN  /\ a.amount = R(50, 1) /\ a.from = "NGN" /\ a.to = "EUR"
           /\ ~Truthy(a.rates[<<"NGN", "EUR">>])
           /\ a.rates[<<"NGN", "USD">>] = R(1, 1500)
           /\ a.out = R(1, 33)

-----------------------------------------------------------------------------
(* The two transaction listings over a table that holds a row *)

AdminNext ==
    \/ \E userId \in Users, status \in {Null, "pending", "completed"} :
            \/ StartUserTransactions("a", userId, status)
            \/ StartAllTransactions("a", userId, status)
    \/ AllTransactionsAdmin("a")
    \/ TransactionsQuery("a")
    \/ Webhook

SpecAdmin == ConcurrentInit /\ [][AdminNext]_vars

\* the profile lookup of the getAllTransactions call in slot c came back (it
\* did not throw)
AdminLookupReturned(c) == calls[c].result # Err("profile threw")

\* C16: a getAllTransactions call whose profile lookup returned an error, no
\* profile or a role other than 'admin' returns the Unauthorized error with no
\* data and never queries transactions; a call that returns transactions was
\* made by an admin and returns the rows of every user
C16_OnlyAdminsListAll ==
    \A c \in Slots :
        Done(c, "getAllTransactions") =>
            LET role == RoleOf(calls[c].userCurrency)
                lookupError == calls[c].fault /\ ~calls[c].queried
            IN  /\ (AdminLookupReturned(c) /\ (lookupError \/ role # <<"admin">>)) =>
                        /\ calls[c].result = Err("Unauthorized")
                        /\ ~calls[c].queried
                /\ calls[c].result.error = Null =>
                        /\ role = <<"admin">>
                        /\ calls[c].queried
                        /\ LET rows == calls[c].result.data[1].transactions
                           IN  /\ calls[c].status = Null =>
                                    {r.id : r \in Range(rows)} = DOMAIN transactions
                               /\ calls[c].status # Null =>
                                    \A r \in Range(rows) : r.status = calls[c].status

\* a caller whose role is 'user' was refused without a query
C16_Witness ==
    \E c \in Slots :
        /\ Done(c, "getAllTransactions")
        /\ calls[c].userCurrency = "u1"
        /\ ~calls[c].fault /\ ~calls[c].queried
        /\ calls[c].result = Err("Unauthorized")
        /\ transactions # <<>>

-----------------------------------------------------------------------------
(* The wallet payment's compensation and its abort on a failed rate lookup *)

\* C17: a wallet payment that has returned after its debit succeeded and its
\* insert returned an error made exactly one more updateUserPoints call, the
\* refund, and returned the insert's error
C17_RefundOnceThenInsertError ==
    \A c \in Slots :
        (/\ Done(c, "processWalletPayment")
         /\ calls[c].debits = 1
         /\ calls[c].errText = "insert error")
        => /\ calls[c].pointCalls = 2
           /\ calls[c].result = Err("insert error")

\* C18: a wallet payment in another currency than USD whose rate lookup
\* reported an error has returned that error with no data, without fetching the
\* profile, debiting points or inserting a row
C18_RateErrorAborts ==
    \A c \in Slots :
        (/\ calls[c].op = "processWalletPayment"
         /\ calls[c].currency # "USD"
         /\ calls[c].rateAnswer = "error")
        => /\ calls[c].pc = "done"
           /\ calls[c].result = Err("rate error")
           /\ ~calls[c].computed
           /\ calls[c].fetchedPoints = -1
           /\ calls[c].pointCalls = 0
           /\ Len(transactions) = calls[c].txBefore
           /\ profile.points = calls[c].balBefore

C18_Witness ==
    \E c \in Slots :
        /\ Done(c, "processWalletPayment")
        /\ calls[c].currency = "EUR" /\ calls[c].rateAnswer = "error"
        /\ calls[c].lookups = 1
        /\ calls[c].result = Err("rate error")

\* C19: a gateway initiation issues its HTTP call only when the row it inserted
\* is there and pending; while it has no row it issues no HTTP call and marks
\* no row failed, and when it returns without a row it returns an error
C19_HttpOnlyAfterPendingRow ==
    [][\A c \in Slots :
        calls'[c].op \in Gateways =>
            /\ calls'[c].http > calls[c].http =>
                /\ calls[c].tx > calls[c].txBefore
                /\ Exists(calls[c].tx)
                /\ Row(calls[c].tx).by = c
                /\ Row(calls[c].tx).status = "pending"
                /\ Row(calls[c].tx).payment_method = PaymentMethodOf(calls[c].op)
                /\ \A i \in DOMAIN transactions :
                     transactions'[i].notified # Row(i).notified => i = calls[c].tx
            /\ (calls'[c].tx = 0 /\ calls'[c] # calls[c]) =>
                /\ calls'[c].http = 0
                /\ \A i \in DOMAIN transactions :
                     transactions'[i].status = "failed" => Row(i).status = "failed"
            /\ (calls'[c].pc = "done" /\ calls'[c].tx = 0) =>
                /\ calls'[c].result.data = <<>>
                /\ calls'[c].result.error \notin {Null, "pending"}]_vars

\* the HTTP call of an initiation was issued for the pending row it created
C19_Witness ==
    \E c \in Slots :
        /\ calls[c].op \in Gateways /\ calls[c].pc = "g_ref"
        /\ calls[c].http = 1 /\ calls[c].tx = 1
        /\ Row(1).status = "pending" /\ Row(1).notified

-----------------------------------------------------------------------------
(* processWalletPayment called twice at once for the same user *)

WalletRaceNext ==
    \E c \in Slots :
        \/ StartWallet(c, R(50, 1), "EUR")
        \/ Wallet(c)

SpecWalletRace == Init /\ [][WalletRaceNext]_vars

\* the points debited by the calls that returned success
PointsDebited(c) ==
    IF Done(c, "processWalletPayment") /\ calls[c].result.error = Null
    THEN calls[c].pointsNeeded ELSE 0

\* C21: whatever the interleaving of the wallet payments of one user, the
\* balance never goes below zero and the calls that returned success have not
\* debited more than the balance the user started with
C21_NoOverdraft ==
    /\ profile.points >= 0
    /\ PointsDebited("a") + PointsDebited("b") <= InitialPoints

\* both calls passed the balance check on the same balance and both debits
\* were applied
C21_BothDebited ==
    /\ calls["a"].debits = 1 /\ calls["b"].debits = 1
    /\ calls["a"].fetchedPoints = InitialPoints
    /\ calls["b"].fetchedPoints = InitialPoints
    /\ profile.points < 0

\* the step on which the updateTransactionStatus call in slot c returns success
UpdateReturnsSuccess(c) ==
    /\ calls[c].op = "updateTransactionStatus" /\ Active(c)
    /\ calls'[c].pc = "done"
    /\ calls'[c].result.error = Null

\* C22: when updateTransactionStatus returns success, the transaction it
\* returns and the stored row at that moment both have the requested status,
\* on the zero-row path that re-reads a settled row as well
C22_SuccessHasRequestedStatus ==
    [][\A c \in Slots :
        UpdateReturnsSuccess(c) =>
            /\ calls'[c].result.data[1].status = calls'[c].status
            /\ transactions'[calls'[c].txId].status = calls'[c].status]_vars

\* a call that asked for 'completed' came back with success and a failed row
C22_SuccessWithOtherStatus ==
    \E c \in Slots :
        /\ Done(c, "updateTransactionStatus")
        /\ calls[c].reread
        /\ calls[c].result.error = Null
        /\ calls[c].status = "completed"
        /\ calls[c].result.data[1].status = "failed"

\* the step on which the processWalletPayment call in slot c returns
WalletReturns(c) ==
    /\ calls[c].op = "processWalletPayment" /\ Active(c)
    /\ calls'[c].pc = "done"

\* C23: for calls made one after the other, a processWalletPayment that returns
\* success has lowered the balance by exactly pointsNeeded and added exactly
\* one row, a completed wallet row whose metadata.points_used is pointsNeeded;
\* one that returns an error after its debit failed has added no row; and a
\* completed wallet row is only inserted by a call whose debit of the row's
\* points_used was applied before
C23_WalletAccountingExact ==
    [][\A c \in Slots :
        LET after == calls'[c]
            last == transactions'[Len(transactions')]
        IN  /\ WalletReturns(c) /\ after.result.error = Null =>
                /\ profile'.points = after.balBefore - after.pointsNeeded
                /\ Len(transactions') = after.txBefore + 1
                /\ last.payment_method = "wallet" /\ last.status = "completed"
                /\ last.metadata.points_used = after.pointsNeeded
                /\ after.result.data = <<last>>
            /\ WalletReturns(c) /\ after.pointCalls = 1 /\ after.debits = 0 =>
                /\ after.result.error # Null
                /\ Len(transactions') = after.txBefore
                /\ profile'.points = after.balBefore
            /\ calls[c].op = "processWalletPayment" /\ Active(c)
               /\ Len(transactions') > Len(transactions) =>
                /\ Len(transactions') = Len(transactions) + 1
                /\ last.payment_method = "wallet" /\ last.status = "completed"
                /\ calls[c].debits = 1 /\ calls[c].credits = 0
                /\ last.metadata.points_used = calls[c].pointsNeeded
                /\ profile.points = calls[c].balBefore - calls[c].pointsNeeded]_vars

\* a payment of 55 points returned success with its row, leaving 45 of 100
C23_Witness ==
    /\ Done("a", "processWalletPayment")
    /\ calls["a"].result.error = Null
    /\ calls["a"].pointsNeeded = 55
    /\ calls["a"].debits = 1
    /\ profile.points = InitialPoints - 55
    /\ WalletRowOf("a") # {}

-----------------------------------------------------------------------------
(* Retry Payment Modal: the user picks a method and retries *)

ModalRetryNext ==
    \/ ModalNext
    \/ SelectMethod

SpecModalRetry == ModalInit /\ [][ModalRetryNext]_vars

\* the step on which handleRetryPayment calls retryPromotedPollPayment
RetryCalled == modal.retry = "idle" /\ modal'.retry = "r_await"

\* C24: handleRetryPayment calls retryPromotedPollPayment only for a logged-in
\* user and with the type of the method of the current list that is selected,
\* and with type 'stripe' only when stripeInstance is set and stripeLoadError is
\* not; loading is true from the call until its outcome, whatever it is, and
\* false after every other click
C24_RetryCallGuarded ==
    [][/\ RetryCalled =>
            /\ modal'.user
            /\ \E x \in Range(modal.paymentMethods) :
                    /\ x.id = modal.selectedPaymentMethod
                    /\ x.type = modal'.retryType
            /\ modal'.retryType = "stripe" =>
                    modal.stripeInstance /\ modal.stripeLoadError = Null
            /\ modal'.loading
       /\ modal.retry = "r_await" /\ modal'.retry # "r_await" => ~modal'.loading
       /\ modal'.loading => modal'.retry = "r_await"]_vars

\* a click with a listed stripe method selected while Stripe had failed to
\* load was refused without a call, and loading is false
C24_Witness ==
    /\ modal.toast = "Stripe payment system is not available"
    /\ modal.user
    /\ modal.stripeLoadError # Null
    /\ SelectedMethod(modal) # <<>>
    /\ SelectedMethod(modal)[1].type = "stripe"
    /\ modal.retry = "idle" /\ ~modal.loading
====
